---- MODULE Spec2Model ----
(***************************************************************************)
(* Model of src/semcheck/changes.rs: the change categories, the unary and  *)
(* binary change records with their Eq/Ord instances, and the ChangeSet    *)
(* that collects changes in a BTreeSet and tracks the maximal category.    *)
(***************************************************************************)
EXTENDS Integers, Sequences, FiniteSets, TLC

(* ------------------------------ bounds --------------------------------- *)

\* Largest byte position of a span (lo and hi range over 0..MaxPos).
MaxPos == 1

\* Largest number of add_change calls in one run.
MaxAdds == 2

\* Identifiers of the exports handed in.
Idents == {"foo", "bar"}

(* ------------------------------ spans ---------------------------------- *)

\* SyntaxContext::empty(), the only context the exports carry.
EmptyCtxt == 0

\* Span { lo, hi, ctxt } with lo <= hi.
Spans ==
    {s \in [lo : 0..MaxPos, hi : 0..MaxPos, ctxt : {EmptyCtxt}] : s.lo <= s.hi}

IntCmp(a, b) == IF a < b THEN -1 ELSE IF a > b THEN 1 ELSE 0

\* Span's Ord: the fields compared in declaration order lo, hi, ctxt.
SpanCmp(s, t) ==
    IF IntCmp(s.lo, t.lo) # 0 THEN IntCmp(s.lo, t.lo)
    ELSE IF IntCmp(s.hi, t.hi) # 0 THEN IntCmp(s.hi, t.hi)
    ELSE IntCmp(s.ctxt, t.ctxt)

\* Span's PartialEq: all fields equal.
SpanEq(s, t) == s.lo = t.lo /\ s.hi = t.hi /\ s.ctxt = t.ctxt

(* ------------------------------ exports -------------------------------- *)

\* Export { ident, def, span }; def is Def::Err throughout and is never read.
Exports == [ident : Idents, span : Spans]

(* --------------------------- change categories ------------------------- *)

\* enum ChangeCategory, in declaration order.
ChangeCategory == <<"Patch", "NonBreaking", "TechnicallyBreaking", "Breaking">>

Categories == {ChangeCategory[i] : i \in DOMAIN ChangeCategory}

\* Position of a category in the declaration: the derived Ord compares it.
CatOrd(cat) == CHOOSE i \in DOMAIN ChangeCategory : ChangeCategory[i] = cat

CatGt(a, b) == CatOrd(a) > CatOrd(b)

\* impl Default for ChangeCategory
DefaultCategory == "Patch"

(* ------------------------------ changes -------------------------------- *)

\* enum BinaryChangeType
BinaryChangeType == {"Unknown"}

\* Change::new_addition
new_addition(export) == [variant |-> "Unary", type |-> "Addition", export |-> export]

\* Change::new_removal
new_removal(export) == [variant |-> "Unary", type |-> "Removal", export |-> export]

\* Change::new_binary
new_binary(type_, old, new) == [variant |-> "Binary", type |-> type_, old |-> old, new |-> new]

UnaryChanges == {new_addition(e) : e \in Exports} \cup {new_removal(e) : e \in Exports}

\* The spans the old exports are drawn from: those starting at position 0.
OldSpans == {s \in Spans : s.lo = 0}

\* The matcher pairs an old and a new export of the same item: the
\* identifier is the same on both sides, the spans are independent.
BinaryChanges ==
    {c \in {new_binary(t, o, n) : t \in BinaryChangeType, o \in Exports, n \in Exports} :
        c.old.ident = c.new.ident /\ c.old.span \in OldSpans}

Changes == UnaryChanges \cup BinaryChanges

\* UnaryChange::span
unary_span(u) == u.export.span

\* UnaryChange::ident
unary_ident(u) == u.export.ident

\* UnaryChange::type_
unary_type_(u) == u.type

\* BinaryChange::new_span
new_span(b) == b.new.span

\* BinaryChange::old_span
old_span(b) == b.old.span

\* BinaryChange::ident
binary_ident(b) == b.old.ident

\* CategoryOfUnary with an Addition taken as backwards-compatible.
CategoryOfUnary_nonbreaking(u) ==
    IF u.type = "Addition" THEN "NonBreaking" ELSE "Breaking"

\* impl From<&UnaryChange> for ChangeCategory
CategoryOfUnary(u) ==
    IF u.type = "Addition" THEN "TechnicallyBreaking" ELSE "Breaking"

\* impl From<&BinaryChangeType> for ChangeCategory
CategoryOfBinaryType(type_) ==
    CASE type_ = "Unknown" -> "Breaking"

\* impl From<&BinaryChange> for ChangeCategory
CategoryOfBinary(b) == CategoryOfBinaryType(b.type)

\* impl From<&Change> for ChangeCategory
CategoryOf(c) ==
    IF c.variant = "Unary" THEN CategoryOfUnary(c) ELSE CategoryOfBinary(c)

\* The span a change is keyed by.
key_span(c) == IF c.variant = "Unary" THEN unary_span(c) ELSE new_span(c)

\* UnaryEq that also tells an Addition from a Removal.
UnaryEq_kind(a, b) == SpanEq(unary_span(a), unary_span(b)) /\ a.type = b.type

\* impl PartialEq for UnaryChange
UnaryEq(a, b) == SpanEq(unary_span(a), unary_span(b))

\* impl Ord for UnaryChange
UnaryCmp(a, b) == SpanCmp(unary_span(a), unary_span(b))

\* impl PartialEq for BinaryChange
BinaryEq(a, b) == SpanEq(new_span(a), new_span(b))

\* impl Ord for BinaryChange
BinaryCmp(a, b) == SpanCmp(new_span(a), new_span(b))

\* Discriminant of a Change variant: Unary is declared before Binary.
Discriminant(c) == IF c.variant = "Unary" THEN 0 ELSE 1

\* #[derive(PartialEq)] on Change: same variant and equal payloads.
ChangeEq(a, b) ==
    /\ Discriminant(a) = Discriminant(b)
    /\ IF a.variant = "Unary" THEN UnaryEq(a, b) ELSE BinaryEq(a, b)

\* ChangeCmp that answers Less whenever the variants differ.
ChangeCmp_less(a, b) ==
    IF Discriminant(a) # Discriminant(b)
    THEN -1
    ELSE IF a.variant = "Unary" THEN UnaryCmp(a, b) ELSE BinaryCmp(a, b)

\* #[derive(Ord)] on Change: the discriminants first, then the payloads.
ChangeCmp(a, b) ==
    IF Discriminant(a) # Discriminant(b)
    THEN IntCmp(Discriminant(a), Discriminant(b))
    ELSE IF a.variant = "Unary" THEN UnaryCmp(a, b) ELSE BinaryCmp(a, b)

ChangeLt(a, b) == ChangeCmp(a, b) = -1

ChangeGt(a, b) == ChangeCmp(a, b) = 1

(* ----------------------------- ChangeSet ------------------------------- *)

\* insert that overwrites the element comparing Equal to the new one.
insert_replace(s, c) ==
    LET k == Cardinality({i \in DOMAIN s : ChangeCmp(s[i], c) = -1})
    IN  IF \E i \in DOMAIN s : ChangeCmp(s[i], c) = 0
        THEN [s EXCEPT ![k + 1] = c]
        ELSE SubSeq(s, 1, k) \o <<c>> \o SubSeq(s, k + 1, Len(s))

\* insert that keeps an element comparing Equal to one already held.
insert_dup(s, c) ==
    LET k == Cardinality({i \in DOMAIN s : ChangeCmp(s[i], c) = -1})
    IN  SubSeq(s, 1, k) \o <<c>> \o SubSeq(s, k + 1, Len(s))

\* insert that keeps the elements in arrival order.
insert_append(s, c) ==
    IF \E i \in DOMAIN s : ChangeCmp(s[i], c) = 0 THEN s ELSE Append(s, c)

\* BTreeSet<Change>::insert on the set held as its ascending iteration
\* order: an element comparing Equal to the new one is kept as it is.
insert(s, c) ==
    IF \E i \in DOMAIN s : ChangeCmp(s[i], c) = 0
    THEN s
    ELSE LET k == Cardinality({i \in DOMAIN s : ChangeCmp(s[i], c) = -1})
         IN  SubSeq(s, 1, k) \o <<c>> \o SubSeq(s, k + 1, Len(s))

\* ChangeSet::default()
DefaultChangeSet == [changes |-> <<>>, max |-> DefaultCategory]

\* add_change that overwrites max with the category of the last change.
add_change_last(self, change) ==
    [changes |-> insert(self.changes, change), max |-> CategoryOf(change)]

\* add_change that raises max only for a change the set did not hold.
add_change_if_new(self, change) ==
    LET cat == CategoryOf(change)
    IN  [changes |-> insert(self.changes, change),
         max     |-> IF /\ CatGt(cat, self.max)
                        /\ \A i \in DOMAIN self.changes :
                               ChangeCmp(self.changes[i], change) # 0
                     THEN cat ELSE self.max]

\* ChangeSet::add_change
add_change(self, change) ==
    LET cat == CategoryOf(change)
    IN  [changes |-> insert(self.changes, change),
         max     |-> IF CatGt(cat, self.max) THEN cat ELSE self.max]

\* The tag a change is printed with by ChangeSet::output.
type_tag(c) == IF c.variant = "Unary" THEN unary_type_(c) ELSE c.type

\* The identifier a change is printed with by ChangeSet::output.
ident(c) == IF c.variant = "Unary" THEN unary_ident(c) ELSE binary_ident(c)

\* The lines ChangeSet::output prints: the max line, then one per change.
output(self) ==
    <<<<"max", self.max>>>> \o
    [i \in DOMAIN self.changes |->
        <<type_tag(self.changes[i]), ident(self.changes[i])>>]

(* --------------------------- state machine ----------------------------- *)

VARIABLES
    changes,   \* ChangeSet.changes, in iteration order
    max,       \* ChangeSet.max
    hist,      \* every change passed to add_change so far, in call order
    printed,   \* what output has printed, <<>> before the call
    args,      \* the changes a property test was called with
    res        \* what the property test computed

vars == <<changes, max, hist, printed, args, res>>

Self == [changes |-> changes, max |-> max]

Init ==
    /\ changes = DefaultChangeSet.changes
    /\ max = DefaultChangeSet.max
    /\ hist = <<>>
    /\ printed = <<>>
    /\ args = <<>>
    /\ res = [test |-> "none"]

\* set.add_change(change)
AddChange(change) ==
    /\ printed = <<>>
    /\ Len(hist) < MaxAdds
    /\ LET self == add_change(Self, change)
       IN  /\ changes' = self.changes
           /\ max' = self.max
    /\ hist' = Append(hist, change)
    /\ UNCHANGED <<printed, args, res>>

\* set.output(session), once, at the end of the run
Output ==
    /\ printed = <<>>
    /\ printed' = output(Self)
    /\ UNCHANGED <<changes, max, hist, args, res>>

Next ==
    \/ \E change \in Changes : AddChange(change)
    \/ Output

Spec == Init /\ [][Next]_vars

(* ------------------- the property tests as a harness ------------------- *)

\* quickcheck draws the arguments; here they range over all changes.
InitCmp ==
    /\ changes = DefaultChangeSet.changes
    /\ max = DefaultChangeSet.max
    /\ hist = <<>>
    /\ printed = <<>>
    /\ args \in Changes \X Changes \X Changes
    /\ res = [test |-> "none"]

\* tests::ord_change_transitive
ord_change_transitive ==
    LET ch1 == args[1]
        ch2 == args[2]
        ch3 == args[3]
        r1 == (ChangeLt(ch1, ch2) /\ ChangeLt(ch2, ch3)) => ChangeLt(ch1, ch3)
        r2 == (ChangeEq(ch1, ch2) /\ ChangeEq(ch2, ch3)) => ChangeEq(ch1, ch3)
        r3 == (ChangeGt(ch1, ch2) /\ ChangeGt(ch2, ch3)) => ChangeGt(ch1, ch3)
    IN  /\ res.test # "ord_change_transitive"
        /\ res' = [test |-> "ord_change_transitive",
                   lt |-> <<ChangeLt(ch1, ch2), ChangeLt(ch2, ch3), ChangeLt(ch1, ch3)>>,
                   eq |-> <<ChangeEq(ch1, ch2), ChangeEq(ch2, ch3), ChangeEq(ch1, ch3)>>,
                   gt |-> <<ChangeGt(ch1, ch2), ChangeGt(ch2, ch3), ChangeGt(ch1, ch3)>>,
                   res |-> r1 /\ r2 /\ r3]
        /\ UNCHANGED <<changes, max, hist, printed, args>>

\* tests::change_span_neq
change_span_neq ==
    LET ch1 == args[1]
        ch2 == args[2]
        s1 == key_span(ch1)
        s2 == key_span(ch2)
    IN  /\ res.test # "change_span_neq"
        /\ res' = [test |-> "change_span_neq",
                   span_neq |-> ~SpanEq(s1, s2),
                   eq |-> ChangeEq(ch1, ch2),
                   res |-> IF ~SpanEq(s1, s2) THEN ~ChangeEq(ch1, ch2) ELSE TRUE]
        /\ UNCHANGED <<changes, max, hist, printed, args>>

NextCmp ==
    \/ ord_change_transitive
    \/ change_span_neq

SpecCmp == InitCmp /\ [][NextCmp]_vars

(* ------------------------------ properties ----------------------------- *)

\* The greatest category of a non-empty set of categories.
MaxCategory(S) == CHOOSE c \in S : \A d \in S : CatOrd(d) <= CatOrd(c)

\* The categories of all changes ever passed to add_change.
HistCategories == {CategoryOf(hist[i]) : i \in DOMAIN hist}

\* The categories of the entries the set holds.
StoredCategories == {CategoryOf(changes[i]) : i \in DOMAIN changes}

\* The change the last add_change call was given.
LastAdded == hist[Len(hist)]

\* A step that is an add_change call.
IsAdd == hist' # hist

\* The change an add_change step is given.
Added == hist'[Len(hist')]

\* The ChangeSet a fresh set becomes after the add_change calls of seq.
RECURSIVE RunAdds(_)
RunAdds(seq) ==
    IF seq = <<>> THEN DefaultChangeSet
    ELSE add_change(RunAdds(SubSeq(seq, 1, Len(seq) - 1)), seq[Len(seq)])

\* hist in the order given by the permutation p of its indices.
Permuted(p) == [i \in DOMAIN hist |-> hist[p[i]]]

\* What a report entry exposes: kind tag, identifier and spans.
Exposed(c) ==
    IF c.variant = "Unary"
    THEN <<type_tag(c), ident(c), unary_span(c)>>
    ELSE <<type_tag(c), ident(c), old_span(c), new_span(c)>>

ExposedList(s) == [i \in DOMAIN s |-> Exposed(s[i])]

\* The equality key of a change: its variant class and its key span.
Key(c) == <<c.variant, key_span(c)>>

KeyList(s) == [i \in DOMAIN s |-> Key(s[i])]

\* C1: max is the greatest category among all changes ever passed to
\* add_change, discarded duplicates included, and Patch when none was; it
\* never decreases across an add_change call.
C1_MaxOfAllInserted ==
    /\ [](max = MaxCategory(HistCategories \cup {"Patch"}))
    /\ [][IsAdd => CatOrd(max') >= CatOrd(max)]_vars

\* C1 witness: a Removal was discarded as the duplicate of a stored Addition
\* and still raised max.
C1_Witness ==
    /\ Len(hist) = 2
    /\ Len(changes) = 1
    /\ hist[1].type = "Addition"
    /\ hist[2].type = "Removal"
    /\ max = "Breaking"

\* C2 as stated: after add_change(c1); add_change(c2) with c1 == c2 there is
\* one entry for the key and max is what it was after add_change(c1) alone.
C2_SecondInsertKeepsMax ==
    [][(IsAdd /\ Len(hist) >= 1 /\ ChangeEq(LastAdded, Added))
          => (Len(changes') = Len(changes) /\ max' = max)]_vars

\* C2 amended: after add_change(c1); add_change(c2) with c1 == c2 the entries
\* are those after add_change(c1) alone, exactly one of them equal to c2, and
\* max is the greater of max after add_change(c1) and the category of c2; it
\* is unchanged when c2 has the category of c1.
C2_SecondInsertJoinsMax ==
    [][(IsAdd /\ Len(hist) >= 1 /\ ChangeEq(LastAdded, Added))
          => /\ changes' = changes
             /\ Cardinality({i \in DOMAIN changes' : ChangeEq(changes'[i], Added)}) = 1
             /\ max' = MaxCategory({max, CategoryOf(Added)})
             /\ (CategoryOf(Added) = CategoryOf(LastAdded) => max' = max)]_vars

\* C2 witness: an Addition and then a Removal of the same span were added.
C2_Witness ==
    /\ Len(hist) = 2
    /\ ChangeEq(hist[1], hist[2])
    /\ hist[1].type = "Addition"
    /\ hist[2].type = "Removal"
    /\ Len(changes) = 1
    /\ changes[1] = hist[1]
    /\ max = "Breaking"

\* C3 as stated: adding the same changes in any other order gives the same
\* max and the same list of entries, compared by kind tag, identifier and
\* spans.
C3_OrderIndependentEntries ==
    \A p \in Permutations(DOMAIN hist) :
        LET other == RunAdds(Permuted(p))
        IN  /\ other.max = max
            /\ ExposedList(other.changes) = ExposedList(changes)

\* C3 amended: adding the same changes in any other order gives the same max
\* and the same ordered list of equality keys (variant class and key span).
C3_OrderIndependentKeys ==
    \A p \in Permutations(DOMAIN hist) :
        LET other == RunAdds(Permuted(p))
        IN  /\ other.max = max
            /\ KeyList(other.changes) = KeyList(changes)

\* C3 witness: two changes with distinct keys were added in descending
\* order and are stored in ascending order.
C3_Witness ==
    /\ Len(hist) = 2
    /\ Len(changes) = 2
    /\ ChangeGt(hist[1], hist[2])
    /\ changes = <<hist[2], hist[1]>>

\* C4: the entries are iterated in ascending order of their key spans, a
\* unary entry next to a binary one included.
C4_AscendingByKeySpan ==
    \A i, j \in DOMAIN changes :
        i < j => SpanCmp(key_span(changes[i]), key_span(changes[j])) <= 0

\* C5: an add_change call given a change equal to a stored entry leaves the
\* entries exactly as they were, the stored entry's kind, identifier and
\* spans retained.
C5_FirstWriteWins ==
    [][(IsAdd /\ \E i \in DOMAIN changes : ChangeEq(changes[i], Added))
          => changes' = changes]_vars

\* C5 witness: a change equal to the stored entry but of another kind and
\* identifier was added, and the stored entry is still the first one.
C5_Witness ==
    /\ Len(hist) = 2
    /\ ChangeEq(hist[1], hist[2])
    /\ hist[1].type # hist[2].type
    /\ ident(hist[1]) # ident(hist[2])
    /\ changes = <<hist[1]>>

\* C6: <, == and > on changes, unary and binary mixed, are transitive.
C6_Transitive ==
    res.test = "ord_change_transitive" =>
        /\ (res.lt[1] /\ res.lt[2]) => res.lt[3]
        /\ (res.eq[1] /\ res.eq[2]) => res.eq[3]
        /\ (res.gt[1] /\ res.gt[2]) => res.gt[3]
        /\ res.res

\* C6 witness: the test compared an ascending chain that mixes a unary and a
\* binary change.
C6_Witness ==
    /\ res.test = "ord_change_transitive"
    /\ res.lt[1]
    /\ res.lt[2]
    /\ args[1].variant = "Unary"
    /\ args[2].variant = "Binary"
    /\ args[3].variant = "Binary"

C8_Expected(c) ==
    IF c.variant = "Unary" /\ c.type = "Addition" THEN "TechnicallyBreaking"
    ELSE "Breaking"

\* C8: an Addition is TechnicallyBreaking, a Removal Breaking, an Unknown
\* binary change Breaking, whatever the spans and identifiers; a set with no
\* insertions reports Patch; Patch < NonBreaking < TechnicallyBreaking <
\* Breaking.
C8_Classification ==
    /\ hist = <<>> => max = "Patch"
    /\ (hist = <<>> /\ printed # <<>>) => printed = <<<<"max", "Patch">>>>
    /\ Len(hist) = 1 => max = C8_Expected(hist[1])
    /\ max = MaxCategory({C8_Expected(hist[i]) : i \in DOMAIN hist} \cup {"Patch"})
    /\ CatGt("NonBreaking", "Patch")
    /\ CatGt("TechnicallyBreaking", "NonBreaking")
    /\ CatGt("Breaking", "TechnicallyBreaking")

\* C8 witness: a single Addition was added and the set reports
\* TechnicallyBreaking.
C8_Witness ==
    /\ Len(hist) = 1
    /\ hist[1].type = "Addition"
    /\ max = "TechnicallyBreaking"
    /\ printed # <<>>

\* C9: no two stored entries compare equal, and there are as many entries as
\* distinct (variant class, key span) pairs among the changes ever added.
C9_OneEntryPerKey ==
    /\ \A i, j \in DOMAIN changes : i # j => ~ChangeEq(changes[i], changes[j])
    /\ Len(changes) = Cardinality({Key(hist[i]) : i \in DOMAIN hist})

\* C9 witness: a binary and then a unary change of the same span were added
\* and both are stored.
C9_Witness ==
    /\ Len(hist) = 2
    /\ Len(changes) = 2
    /\ hist[1].variant = "Binary"
    /\ hist[2].variant = "Unary"
    /\ key_span(hist[1]) = key_span(hist[2])

\* C10 as stated: max is the greatest category among the stored entries.
C10_MaxOfStored ==
    max = MaxCategory(StoredCategories \cup {"Patch"})

\* C10 amended: max is at least the greatest category among the stored
\* entries; it equals it when no change was discarded as a duplicate, and
\* otherwise is the category of a stored entry or of a discarded change.
C10_MaxAtLeastStored ==
    /\ CatOrd(max) >= CatOrd(MaxCategory(StoredCategories \cup {"Patch"}))
    /\ Len(changes) = Len(hist) => max = MaxCategory(StoredCategories \cup {"Patch"})
    /\ max # MaxCategory(StoredCategories \cup {"Patch"})
          => \E i \in DOMAIN hist :
                /\ CategoryOf(hist[i]) = max
                /\ \A j \in DOMAIN changes : changes[j] # hist[i]

\* C10 witness: the only stored entry is an Addition and max is Breaking.
C10_Witness ==
    /\ Len(changes) = 1
    /\ CategoryOf(changes[1]) = "TechnicallyBreaking"
    /\ max = "Breaking"

====
